---- MODULE Spec2Model ----
(***************************************************************************)
(* Model of the blog's content resolution and head-metadata code:          *)
(*   components/PostPreview.vue  (tag chips of the list preview)           *)
(*   pages/posts/_slug.vue       (asyncData lookup and head() metadata)    *)
(* Both files exist in two variants; the model carries both.               *)
(*                                                                         *)
(* Strings are sequences of symbols.  A symbol is either a single          *)
(* character (";", " ", "/") or a run of characters that contains none of  *)
(* them ("intro", "hello.jpg").  An optional JavaScript value is a         *)
(* sequence of length 0 (null / undefined) or 1 (the value).               *)
(***************************************************************************)
EXTENDS Integers, Sequences, FiniteSets, TLC

\* ------------------------------------------------------------------------
\* Bounds
\* ------------------------------------------------------------------------
MaxTagLen == 3
NumReq == 2

\* ------------------------------------------------------------------------
\* Optional values and strings
\* ------------------------------------------------------------------------
Undefined == <<>>
Some(v) == <<v>>
IsDefined(o) == Len(o) = 1
Val(o) == o[1]

EmptyString == <<>>

RECURSIVE StringsUpTo(_, _)
StringsUpTo(chars, n) ==
  IF n = 0 THEN {<<>>}
  ELSE LET shorter == StringsUpTo(chars, n - 1)
       IN shorter \cup {Append(s, c) : s \in shorter, c \in chars}

\* ------------------------------------------------------------------------
\* String.prototype.split with a one-character separator, as the engine
\* computes it: scan left to right, close a segment at every separator,
\* close the last segment at the end of the string.
\* ------------------------------------------------------------------------
RECURSIVE SplitFrom(_, _, _, _, _)
SplitFrom(s, sep, i, cur, acc) ==
  IF i > Len(s) THEN Append(acc, cur)
  ELSE IF s[i] = sep THEN SplitFrom(s, sep, i + 1, <<>>, Append(acc, cur))
  ELSE SplitFrom(s, sep, i + 1, Append(cur, s[i]), acc)

split(s, sep) == SplitFrom(s, sep, 1, <<>>, <<>>)

\* Array.prototype.join
RECURSIVE join(_, _)
join(arr, sep) ==
  IF Len(arr) = 0 THEN <<>>
  ELSE IF Len(arr) = 1 THEN arr[1]
  ELSE arr[1] \o <<sep>> \o join(Tail(arr), sep)

\* String.prototype.trim on a segment: drop leading and trailing blanks.
RECURSIVE trimStart(_)
trimStart(seg) ==
  IF Len(seg) > 0 /\ seg[1] = " " THEN trimStart(Tail(seg)) ELSE seg

RECURSIVE trimEnd(_)
trimEnd(seg) ==
  IF Len(seg) > 0 /\ seg[Len(seg)] = " "
  THEN trimEnd(SubSeq(seg, 1, Len(seg) - 1)) ELSE seg

\* computed.tags with every segment trimmed: .split(";").map(t => t.trim())
tagsTrimmed(rawTags) ==
  IF ~IsDefined(rawTags) THEN <<>>
  ELSE LET segs == split(Val(rawTags), ";")
       IN [k \in 1..Len(segs) |-> trimStart(trimEnd(segs[k]))]

\* computed.tags with empty segments dropped: .split(";").filter(Boolean)
tagsFiltered(rawTags) ==
  IF ~IsDefined(rawTags) THEN <<>>
  ELSE SelectSeq(split(Val(rawTags), ";"), LAMBDA seg : Len(seg) > 0)

\* The error thrown by reading a property of undefined; it stands for the
\* result of an evaluation that throws.
TypeError == << <<"TypeError: Cannot read properties of undefined">> >>

\* computed.tags without optional chaining: this.post.tags.split(";")
tagsUnguarded(rawTags) ==
  IF ~IsDefined(rawTags) THEN TypeError
  ELSE split(Val(rawTags), ";")

\* computed.tags with a split that drops trailing empty segments, as the
\* split of some other languages does.
RECURSIVE dropTrailingEmpty(_)
dropTrailingEmpty(arr) ==
  IF Len(arr) > 0 /\ Len(arr[Len(arr)]) = 0
  THEN dropTrailingEmpty(SubSeq(arr, 1, Len(arr) - 1))
  ELSE arr

tagsTrailingDropped(rawTags) ==
  IF ~IsDefined(rawTags) THEN <<>>
  ELSE dropTrailingEmpty(split(Val(rawTags), ";"))

\* PostPreview.vue, computed.tags:
\*     return this.post.tags?.split(";") ?? [];
\* `?.` short-circuits on null and undefined only; "" is split like any
\* other string.
tags(rawTags) ==
  IF ~IsDefined(rawTags) THEN <<>>
  ELSE split(Val(rawTags), ";")

\* ------------------------------------------------------------------------
\* formatDate(date) of PostPreview.vue and of the second _slug.vue variant:
\*     const options = { year: 'numeric', month: 'long', day: 'numeric' }
\*     return new Date(date).toLocaleDateString('en', options)
\* A raw date is an optional string of single characters.  `new Date(s)`
\* reads the ISO forms YYYY-MM-DD and YYYY-MM-DDTHH:mmZ as UTC; the options
\* name no timeZone, so toLocaleDateString renders the calendar day of the
\* environment's time zone (tz, whole hours east of UTC).
\* ------------------------------------------------------------------------
DigitChars == <<"0", "1", "2", "3", "4", "5", "6", "7", "8", "9">>

IsDigit(c) == \E i \in 1..Len(DigitChars) : DigitChars[i] = c

DigitVal(c) == (CHOOSE i \in 1..Len(DigitChars) : DigitChars[i] = c) - 1

RECURSIVE Num(_)
Num(ds) ==
  IF Len(ds) = 0 THEN 0
  ELSE 10 * Num(SubSeq(ds, 1, Len(ds) - 1)) + DigitVal(ds[Len(ds)])

AllDigits(ds) == \A i \in 1..Len(ds) : IsDigit(ds[i])

IsLeap(y) == (y % 4 = 0 /\ y % 100 # 0) \/ y % 400 = 0

DaysInMonth(y, m) ==
  IF m = 2 THEN (IF IsLeap(y) THEN 29 ELSE 28)
  ELSE IF m \in {4, 6, 9, 11} THEN 30 ELSE 31

MonthNames ==
  <<"January", "February", "March", "April", "May", "June", "July",
    "August", "September", "October", "November", "December">>

InvalidDate == [valid |-> FALSE, y |-> 0, m |-> 0, d |-> 0, h |-> 0]

\* The YYYY-MM-DD part of an ISO string
DatePartOk(s) ==
  /\ Len(s) >= 10
  /\ AllDigits(SubSeq(s, 1, 4)) /\ s[5] = "-"
  /\ AllDigits(SubSeq(s, 6, 7)) /\ s[8] = "-"
  /\ AllDigits(SubSeq(s, 9, 10))
  /\ Num(SubSeq(s, 6, 7)) \in 1..12
  /\ Num(SubSeq(s, 9, 10)) \in
       1..DaysInMonth(Num(SubSeq(s, 1, 4)), Num(SubSeq(s, 6, 7)))

\* The THH:mmZ part of an ISO string
TimePartOk(s) ==
  /\ Len(s) = 17
  /\ s[11] = "T" /\ AllDigits(SubSeq(s, 12, 13)) /\ s[14] = ":"
  /\ AllDigits(SubSeq(s, 15, 16)) /\ s[17] = "Z"
  /\ Num(SubSeq(s, 12, 13)) \in 0..23
  /\ Num(SubSeq(s, 15, 16)) \in 0..59

\* new Date(raw): the UTC day and hour, or an invalid date.  undefined and
\* every string that is not a date give an invalid date.  Minutes do not
\* move the calendar day under a whole-hour offset and are dropped.
newDate(raw) ==
  IF ~IsDefined(raw) THEN InvalidDate
  ELSE LET s == Val(raw)
       IN IF DatePartOk(s) /\ (Len(s) = 10 \/ TimePartOk(s))
          THEN [ valid |-> TRUE,
                 y |-> Num(SubSeq(s, 1, 4)),
                 m |-> Num(SubSeq(s, 6, 7)),
                 d |-> Num(SubSeq(s, 9, 10)),
                 h |-> IF Len(s) = 10 THEN 0 ELSE Num(SubSeq(s, 12, 13)) ]
          ELSE InvalidDate

PrevDay(t) ==
  IF t.d > 1 THEN [t EXCEPT !.d = t.d - 1]
  ELSE IF t.m > 1
       THEN [t EXCEPT !.m = t.m - 1, !.d = DaysInMonth(t.y, t.m - 1)]
       ELSE [t EXCEPT !.y = t.y - 1, !.m = 12, !.d = 31]

NextDay(t) ==
  IF t.d < DaysInMonth(t.y, t.m) THEN [t EXCEPT !.d = t.d + 1]
  ELSE IF t.m < 12 THEN [t EXCEPT !.m = t.m + 1, !.d = 1]
       ELSE [t EXCEPT !.y = t.y + 1, !.m = 1, !.d = 1]

\* The same instant on the clock of the zone `zone` hours east of UTC.
ToLocal(t, zone) ==
  IF t.h + zone < 0 THEN [PrevDay(t) EXCEPT !.h = t.h + zone + 24]
  ELSE IF t.h + zone > 23 THEN [NextDay(t) EXCEPT !.h = t.h + zone - 24]
  ELSE [t EXCEPT !.h = t.h + zone]

\* 'en' with month: 'long', day: 'numeric', year: 'numeric'
LongDate(y, m, d) ==
  <<MonthNames[m], " ", ToString(d), ",", " ", ToString(y)>>

\* toLocaleDateString of an invalid date is the string "Invalid Date".
toLocaleDateString(t, zone) ==
  IF ~t.valid THEN <<"Invalid Date">>
  ELSE LET l == ToLocal(t, zone) IN LongDate(l.y, l.m, l.d)

\* formatDate written with a formatter that throws on an invalid date
\* (RangeError: Invalid time value); the thrown error stands for the result.
formatDateThrowing(raw, zone) ==
  IF ~newDate(raw).valid THEN <<"RangeError: Invalid time value">>
  ELSE toLocaleDateString(newDate(raw), zone)

formatDate(raw, zone) == toLocaleDateString(newDate(raw), zone)

\* {{ x }} in a template: null and undefined are rendered as "".
interpolate(o) == IF IsDefined(o) THEN Val(o) ELSE <<>>

\* ------------------------------------------------------------------------
\* Inputs
\* ------------------------------------------------------------------------
\* Time zones of the environment that renders a page (hours east of UTC).
TimeZones == {0 - 5, 0, 2}

IsoString(yyyy, mm, dd) ==
  yyyy \o <<"-">> \o mm \o <<"-">> \o dd

\* ISO calendar dates, among them the two of the examples, the first and
\* last days of months and years, and a leap day.
IsoDates ==
  { IsoString(y, m, d) :
      y \in {<<"2", "0", "2", "0">>, <<"2", "0", "2", "2">>,
             <<"2", "0", "2", "3">>},
      m \in {<<"0", "1">>, <<"0", "3">>, <<"1", "2">>},
      d \in {<<"0", "1">>, <<"1", "8">>, <<"3", "1">>} }
  \cup { <<"2", "0", "2", "0", "-", "0", "2", "-", "2", "9">> }

\* ISO timestamps, the form of the createdAt that the content module adds.
IsoTimes ==
  { <<"2", "0", "2", "2", "-", "0", "2", "-", "1", "2", "T", "2", "3", ":",
      "3", "0", "Z">>,
    <<"2", "0", "2", "3", "-", "0", "3", "-", "1", "8", "T", "0", "2", ":",
      "1", "5", "Z">> }

\* Strings that are not dates.
NotDates ==
  { <<>>,
    <<"n", "o", "t", " ", "a", " ", "d", "a", "t", "e">>,
    <<"2", "0", "2", "3", "-", "1", "3", "-", "4", "5">> }

DateInputs ==
  {Undefined} \cup {Some(s) : s \in IsoDates \cup IsoTimes \cup NotDates}

TagChars == {"a", "A", " ", ";"}

\* Raw `tags` front-matter values: every string over TagChars up to
\* MaxTagLen, the values stored in content/posts, and the usual examples.
StoredTags ==
  { <<"testing", ";">>,
    <<"data-structures", ";">>,
    <<"data-structures", ";", " ">>,
    <<"algorithms", ";", " ", "systems-design">>,
    <<"aggregates", ";", " ", "Postgresql", ";", " ", "MongoDB", ";", " ",
      "benchmark", ";">> }

ExampleTags ==
  { <<"a", ";", "b", ";", "c">>, <<"intro", ";", "demo">> }

TagInputs ==
  {Undefined} \cup
  {Some(s) : s \in StringsUpTo(TagChars, MaxTagLen) \cup StoredTags
                     \cup ExampleTags}

Slugs == {"hello", "about-brittle-unit-tests", "missing-slug"}

\* content/posts/about-brittle-unit-tests.md, front matter; createdAt is the
\* file timestamp that the content module adds to every document.
BrittleDoc ==
  [ slug |-> "about-brittle-unit-tests",
    title |-> <<"About brittle unit tests">>,
    description |->
      Some(<<"Factors to consider when writting decoupled unit tests.">>),
    htmlMetadata |->
      Some(<<"Factors to consider when writting decoupled unit tests">>),
    image |-> Some(<<"/", "5", "/", "fragile-cards.jpg">>),
    tags |-> Some(<<"testing", ";">>),
    date |-> Some(<<"March", " ", "18", ",", " ", "2023">>),
    createdAt |->
      Some(<<"2", "0", "2", "3", "-", "0", "3", "-", "1", "8", "T", "0",
             "2", ":", "1", "5", "Z">>) ]

\* A document whose optional front-matter fields are present or absent in
\* every combination.
HelloDocs ==
  { [ slug |-> "hello",
      title |-> <<"Hello World">>,
      description |-> d,
      htmlMetadata |-> h,
      image |-> i,
      tags |-> Some(<<"intro", ";", "demo">>),
      date |-> dt,
      createdAt |->
        Some(<<"2", "0", "2", "2", "-", "0", "1", "-", "0", "1">>) ] :
    d \in {Undefined, Some(<<"A greeting">>)},
    h \in {Undefined, Some(<<"Share text">>)},
    i \in {Undefined, Some(<<"hello.jpg">>)},
    dt \in {Undefined, Some(<<"January", " ", "1", ",", " ", "2022">>)} }

\* The content directory: slug -> document.  The slug of a document is its
\* file name, so the key and the document's slug agree.
Stores ==
  { [s \in {"hello", "about-brittle-unit-tests"} |->
       IF s = "hello" THEN d ELSE BrittleDoc] : d \in HelloDocs }
  \cup { [s \in {"about-brittle-unit-tests"} |-> BrittleDoc] }

Variants == {"A", "B"}
Reqs == 1..NumReq
Reasons == {"not found", "store failure"}

\* ------------------------------------------------------------------------
\* State
\* ------------------------------------------------------------------------
VARIABLES
  tz,           \* time zone of the rendering environment, hours east of UTC
  variant,      \* which variant of _slug.vue is deployed
  content,      \* the document store behind $content
  pc,           \* per request: position in the page life cycle
  params,       \* per request: route params.slug (optional)
  post,         \* per request: the `post` data returned by asyncData
  nuxtErr,      \* per request: the argument of error(), if it was called
  rejection,    \* per request: why the lookup rejected, if it did
  headOut,      \* per request: the value head() returned, if evaluated
  dateShown,    \* per request: the date text of the rendered page
  lookups,      \* per request: number of $content(...).fetch() calls issued
  errorCalls,   \* per request: number of error(...) calls made
  via,          \* per request: how the route was entered ("url" or "link")
  previewPost,  \* PostPreview: the `post` prop
  chips,        \* PostPreview: the rendered v-for list of tags (optional)
  previewDate   \* PostPreview: the rendered date text (optional)

vars == <<tz, variant, content, pc, params, post, nuxtErr, rejection,
          headOut, dateShown, lookups, errorCalls, via, previewPost, chips,
          previewDate>>

pageVars == <<variant, content, pc, params, post, nuxtErr, rejection,
              headOut, dateShown, lookups, errorCalls, via>>
previewVars == <<previewPost, chips, previewDate>>

\* ------------------------------------------------------------------------
\* _slug.vue, head()
\* ------------------------------------------------------------------------
\* `${x}` in a template literal: undefined is rendered as "undefined".
ToStr(o) == IF IsDefined(o) THEN Val(o) ELSE <<"undefined">>

\* "https://jorge-olive.net"; the "/" after it is part of each template.
BaseUrl == <<"https:", "/", "/", "jorge-olive.net">>

SitePrefix == <<"jorge-olive.net - ">>

\* `https://jorge-olive.net/${this.post.image}`
imageUrl(image) == BaseUrl \o <<"/">> \o ToStr(image)

\* twitter:url without the posts segment
twitterUrlNoSegment(slug) == BaseUrl \o <<"/">> \o <<slug>>

\* `https://jorge-olive.net/posts/${this.$route.params.slug}`
twitterUrl(slug) == BaseUrl \o <<"/", "posts", "/">> \o <<slug>>

Entry(hid, attr, key, c) ==
  [hid |-> hid, attr |-> attr, key |-> key, content |-> c]

\* The same error reported with another status code.
NotFoundError500 == [statusCode |-> 500, message |-> "Página no encontrada"]

\* error({ statusCode: 404, message: "Página no encontrada" })
NotFoundError == [statusCode |-> 404, message |-> "Página no encontrada"]

\* Variant A (first script block): og:* and twitter:* entries, image and
\* url entries included, no plain description entry.
headA(p, slug) ==
  [ title |-> SitePrefix \o p.title,
    meta |-> <<
      Entry("", "charset", <<"utf-8">>, Undefined),
      Entry("", "name", <<"viewport">>,
            Some(<<"width=device-width, initial-scale=1">>)),
      Entry("og:title", "property", <<"og:title">>, Some(p.title)),
      Entry("og:description", "property", <<"og:description">>,
            p.htmlMetadata),
      Entry("og:image", "property", <<"og:image">>,
            Some(imageUrl(p.image))),
      Entry("twitter:url", "name", <<"twitter:url">>,
            Some(twitterUrl(slug))),
      Entry("twitter:title", "name", <<"twitter:title">>, Some(p.title)),
      Entry("twitter:description", "name", <<"twitter:description">>,
            p.htmlMetadata),
      Entry("twitter:image", "name", <<"twitter:image">>,
            Some(imageUrl(p.image))),
      Entry("twitter:card", "name", <<"twitter:card">>,
            Some(<<"summary_large_image">>)) >>,
    link |-> << [rel |-> "icon", type |-> "image/x-icon",
                 href |-> "/favicon.ico"] >> ]

\* Variant B (second script block): a description entry whose name
\* attribute is the post title, og/twitter title and description, no image
\* and no url entries.
headB(p, slug) ==
  [ title |-> SitePrefix \o p.title,
    meta |-> <<
      Entry("", "charset", <<"utf-8">>, Undefined),
      Entry("", "name", <<"viewport">>,
            Some(<<"width=device-width, initial-scale=1">>)),
      Entry("description", "name", p.title, p.htmlMetadata),
      Entry("og:title", "property", <<"og:title">>, Some(p.title)),
      Entry("og:description", "property", <<"og:description">>,
            p.htmlMetadata),
      Entry("twitter:title", "name", <<"twitter:title">>, Some(p.title)),
      Entry("twitter:description", "name", <<"twitter:description">>,
            p.htmlMetadata) >>,
    link |-> << [rel |-> "icon", type |-> "image/x-icon",
                 href |-> "/favicon.ico"] >> ]

\* A head() value with the content of the entries `hid` replaced.
SetContent(h, hid, c) ==
  [h EXCEPT !.meta =
     [i \in 1..Len(h.meta) |->
        IF h.meta[i].hid = hid THEN [h.meta[i] EXCEPT !.content = c]
        ELSE h.meta[i]]]

\* head() with og:title reusing the prefixed page title.
headPrefixedOgTitle(v, p, slug) ==
  SetContent(IF v = "A" THEN headA(p, slug) ELSE headB(p, slug),
             "og:title", Some(SitePrefix \o p.title))

\* head() with a card type that follows the document: the large card only
\* when the document has an image.
headCardByImage(v, p, slug) ==
  SetContent(IF v = "A" THEN headA(p, slug) ELSE headB(p, slug),
             "twitter:card",
             IF IsDefined(p.image) THEN Some(<<"summary_large_image">>)
             ELSE Some(<<"summary">>))

head(v, p, slug) == IF v = "A" THEN headA(p, slug) ELSE headB(p, slug)

\* ------------------------------------------------------------------------
\* Initial states
\* ------------------------------------------------------------------------
PageInit ==
  /\ pc = [r \in Reqs |-> "idle"]
  /\ params = [r \in Reqs |-> Undefined]
  /\ post = [r \in Reqs |-> Undefined]
  /\ nuxtErr = [r \in Reqs |-> Undefined]
  /\ rejection = [r \in Reqs |-> Undefined]
  /\ headOut = [r \in Reqs |-> Undefined]
  /\ dateShown = [r \in Reqs |-> Undefined]
  /\ lookups = [r \in Reqs |-> 0]
  /\ errorCalls = [r \in Reqs |-> 0]
  /\ via = [r \in Reqs |-> "none"]

Init ==
  /\ tz = 0
  /\ variant \in Variants
  /\ content \in Stores
  /\ PageInit
  /\ previewPost = BrittleDoc
  /\ chips = Undefined
  /\ previewDate = Undefined

\* ------------------------------------------------------------------------
\* _slug.vue, asyncData({ $content, params, error })
\* ------------------------------------------------------------------------
\* The route /posts/{slug} is matched and asyncData issues
\*     $content(`posts/${params.slug}`).fetch()
Navigate(r, slug) ==
  /\ pc[r] = "idle"
  /\ params' = [params EXCEPT ![r] = Some(slug)]
  /\ via' = [via EXCEPT ![r] = "url"]
  /\ lookups' = [lookups EXCEPT ![r] = @ + 1]
  /\ pc' = [pc EXCEPT ![r] = "fetching"]
  /\ UNCHANGED <<variant, content, post, nuxtErr, rejection, headOut,
                 dateShown>>
  /\ UNCHANGED <<tz, previewPost, chips, previewDate>>
  /\ UNCHANGED errorCalls

\* The preview card's link is followed:
\*     <NuxtLink :to="{ name: 'posts-slug', params: { slug: post.slug } }">
\* The route's slug is the slug of the card's document, and asyncData issues
\* its lookup as for any other entry to the route.
FollowLink(r) ==
  /\ pc[r] = "idle"
  /\ IsDefined(chips)
  /\ params' = [params EXCEPT ![r] = Some(previewPost.slug)]
  /\ via' = [via EXCEPT ![r] = "link"]
  /\ lookups' = [lookups EXCEPT ![r] = @ + 1]
  /\ pc' = [pc EXCEPT ![r] = "fetching"]
  /\ UNCHANGED <<variant, content, post, nuxtErr, rejection, headOut,
                 dateShown>>
  /\ UNCHANGED <<tz, previewPost, chips, previewDate>>
  /\ UNCHANGED errorCalls

\* asyncData that keeps `post` in a variable of the module, which every
\* request in flight shares.
asyncDataResolvedShared(r) ==
  /\ pc[r] = "fetching"
  /\ Val(params[r]) \in DOMAIN content
  /\ post' = [q \in Reqs |-> Some(content[Val(params[r])])]
  /\ pc' = [pc EXCEPT ![r] = "returned"]
  /\ UNCHANGED <<variant, content, params, nuxtErr, rejection, headOut,
                 dateShown>>
  /\ UNCHANGED <<tz, previewPost, chips, previewDate>>
  /\ UNCHANGED <<lookups, errorCalls, via>>

\* asyncData that also calls error() when the lookup has settled
\* successfully: .fetch().finally(() => error({...})).
asyncDataResolvedWithError(r) ==
  /\ pc[r] = "fetching"
  /\ Val(params[r]) \in DOMAIN content
  /\ post' = [post EXCEPT ![r] = Some(content[Val(params[r])])]
  /\ nuxtErr' = [nuxtErr EXCEPT ![r] = Some(NotFoundError)]
  /\ errorCalls' = [errorCalls EXCEPT ![r] = @ + 1]
  /\ pc' = [pc EXCEPT ![r] = "returned"]
  /\ UNCHANGED <<variant, content, params, rejection, headOut, dateShown>>
  /\ UNCHANGED <<tz, previewPost, chips, previewDate>>
  /\ UNCHANGED <<lookups, via>>

\* asyncData that fetches the whole posts directory and takes a document of
\* it, whatever the route's slug: $content("posts").fetch().
asyncDataResolvedAnyDoc(r) ==
  /\ pc[r] = "fetching"
  /\ Val(params[r]) \in DOMAIN content
  /\ \E s \in DOMAIN content :
       post' = [post EXCEPT ![r] = Some(content[s])]
  /\ pc' = [pc EXCEPT ![r] = "returned"]
  /\ UNCHANGED <<variant, content, params, nuxtErr, rejection, headOut,
                 dateShown>>
  /\ UNCHANGED <<tz, previewPost, chips, previewDate>>
  /\ UNCHANGED <<lookups, errorCalls, via>>

\* asyncData that prefixes the title on the fetched object in place, the
\* object being the one the store holds.
asyncDataResolvedInPlace(r) ==
  /\ pc[r] = "fetching"
  /\ Val(params[r]) \in DOMAIN content
  /\ content' = [content EXCEPT ![Val(params[r])].title = SitePrefix \o @]
  /\ post' = [post EXCEPT ![r] = Some(content'[Val(params[r])])]
  /\ pc' = [pc EXCEPT ![r] = "returned"]
  /\ UNCHANGED <<variant, params, nuxtErr, rejection, headOut, dateShown>>
  /\ UNCHANGED <<tz, previewPost, chips, previewDate>>
  /\ UNCHANGED <<lookups, errorCalls, via>>

\* The fetch promise resolves with the stored document; `post` is that
\* document and asyncData returns { post }.
asyncDataResolved(r) ==
  /\ pc[r] = "fetching"
  /\ Val(params[r]) \in DOMAIN content
  /\ post' = [post EXCEPT ![r] = Some(content[Val(params[r])])]
  /\ pc' = [pc EXCEPT ![r] = "returned"]
  /\ UNCHANGED <<variant, content, params, nuxtErr, rejection, headOut,
                 dateShown>>
  /\ UNCHANGED <<tz, previewPost, chips, previewDate>>
  /\ UNCHANGED <<lookups, errorCalls, via>>

\* A catch handler that swallows the rejection without calling error().
asyncDataRejectedSilent(r, reason) ==
  /\ pc[r] = "fetching"
  /\ reason = "not found" => Val(params[r]) \notin DOMAIN content
  /\ rejection' = [rejection EXCEPT ![r] = Some(reason)]
  /\ post' = [post EXCEPT ![r] = Undefined]
  /\ pc' = [pc EXCEPT ![r] = "returned"]
  /\ UNCHANGED <<variant, content, params, nuxtErr, headOut, dateShown>>
  /\ UNCHANGED <<tz, previewPost, chips, previewDate>>
  /\ UNCHANGED <<lookups, errorCalls, via>>

\* A catch handler that issues the lookup once more before giving up.
asyncDataRejectedRetry(r, reason) ==
  /\ pc[r] = "fetching"
  /\ reason = "not found" => Val(params[r]) \notin DOMAIN content
  /\ rejection' = [rejection EXCEPT ![r] = Some(reason)]
  /\ IF lookups[r] < 2
     THEN /\ lookups' = [lookups EXCEPT ![r] = @ + 1]
          /\ UNCHANGED <<nuxtErr, errorCalls, pc>>
     ELSE /\ nuxtErr' = [nuxtErr EXCEPT ![r] = Some(NotFoundError)]
          /\ errorCalls' = [errorCalls EXCEPT ![r] = @ + 1]
          /\ pc' = [pc EXCEPT ![r] = "returned"]
          /\ UNCHANGED lookups
  /\ post' = [post EXCEPT ![r] = Undefined]
  /\ UNCHANGED <<variant, content, params, headOut, dateShown>>
  /\ UNCHANGED <<tz, previewPost, chips, previewDate>>
  /\ UNCHANGED via

\* The fetch promise rejects (no such document, or the store itself
\* failed); .catch((err) => error({...})) runs whatever err is, its result
\* (undefined) becomes `post`, and asyncData returns { post }.
asyncDataRejected(r, reason) ==
  /\ pc[r] = "fetching"
  /\ reason = "not found" => Val(params[r]) \notin DOMAIN content
  /\ rejection' = [rejection EXCEPT ![r] = Some(reason)]
  /\ nuxtErr' = [nuxtErr EXCEPT ![r] = Some(NotFoundError)]
  /\ errorCalls' = [errorCalls EXCEPT ![r] = @ + 1]
  /\ post' = [post EXCEPT ![r] = Undefined]
  /\ pc' = [pc EXCEPT ![r] = "returned"]
  /\ UNCHANGED <<variant, content, params, headOut, dateShown>>
  /\ UNCHANGED <<tz, previewPost, chips, previewDate>>
  /\ UNCHANGED <<lookups, via>>

\* A date line that formats with toISOString(), which throws a RangeError
\* for an invalid date.
pageDateIso(v, p, zone) ==
  IF v = "A" THEN interpolate(p.date)
  ELSE IF newDate(p.createdAt) = InvalidDate
       THEN <<"RangeError: Invalid time value">>
       ELSE formatDate(p.createdAt, zone)

\* The date line of the page template:
\*   first variant    On {{ post.date }}
\*   second variant   On {{formatDate(post.createdAt)}}
pageDate(v, p, zone) ==
  IF v = "A" THEN interpolate(p.date) ELSE formatDate(p.createdAt, zone)

\* A render whose head() drops htmlMetadata from the stored document once
\* it has read it, so that a later render of the same slug sees another
\* document.
RenderPageConsuming(r) ==
  /\ pc[r] = "returned"
  /\ ~IsDefined(nuxtErr[r])
  /\ IsDefined(post[r])
  /\ headOut' = [headOut EXCEPT ![r] =
        Some(head(variant, Val(post[r]), Val(params[r])))]
  /\ dateShown' = [dateShown EXCEPT ![r] =
        Some(pageDate(variant, Val(post[r]), tz))]
  /\ content' = [content EXCEPT ![Val(params[r])].htmlMetadata = Undefined]
  /\ pc' = [pc EXCEPT ![r] = "rendered"]
  /\ UNCHANGED <<variant, params, post, nuxtErr, rejection>>
  /\ UNCHANGED <<tz, previewPost, chips, previewDate>>
  /\ UNCHANGED <<lookups, errorCalls, via>>

\* A page that is rendered without waiting for asyncData: head() and the
\* template are evaluated while the lookup is still in flight.
RenderPageEager(r) ==
  /\ pc[r] \in {"fetching", "returned"}
  /\ ~IsDefined(nuxtErr[r])
  /\ IF IsDefined(post[r])
     THEN /\ headOut' = [headOut EXCEPT ![r] =
                Some(head(variant, Val(post[r]), Val(params[r])))]
          /\ dateShown' = [dateShown EXCEPT ![r] =
                Some(pageDate(variant, Val(post[r]), tz))]
          /\ pc' = [pc EXCEPT ![r] = "rendered"]
     ELSE /\ headOut' = headOut
          /\ dateShown' = dateShown
          /\ pc' = [pc EXCEPT ![r] = "threw"]
  /\ UNCHANGED <<variant, content, params, post, nuxtErr, rejection>>
  /\ UNCHANGED <<tz, previewPost, chips, previewDate>>
  /\ UNCHANGED <<lookups, errorCalls, via>>

\* No error was signalled: the page component is rendered, head() is
\* evaluated with this.post and this.$route.params.slug, and the template
\* shows the date.  Reading this.post.title of an undefined post throws.
RenderPage(r) ==
  /\ pc[r] = "returned"
  /\ ~IsDefined(nuxtErr[r])
  /\ IF IsDefined(post[r])
     THEN /\ headOut' = [headOut EXCEPT ![r] =
                Some(head(variant, Val(post[r]), Val(params[r])))]
          /\ dateShown' = [dateShown EXCEPT ![r] =
                Some(pageDate(variant, Val(post[r]), tz))]
          /\ pc' = [pc EXCEPT ![r] = "rendered"]
     ELSE /\ headOut' = headOut
          /\ dateShown' = dateShown
          /\ pc' = [pc EXCEPT ![r] = "threw"]
  /\ UNCHANGED <<variant, content, params, post, nuxtErr, rejection>>
  /\ UNCHANGED <<tz, previewPost, chips, previewDate>>
  /\ UNCHANGED <<lookups, errorCalls, via>>

\* error() was called in asyncData: Nuxt shows its error page in place of
\* the page component, whose head() is then not evaluated.
RenderError(r) ==
  /\ pc[r] = "returned"
  /\ IsDefined(nuxtErr[r])
  /\ pc' = [pc EXCEPT ![r] = "errorPage"]
  /\ UNCHANGED <<variant, content, params, post, nuxtErr, rejection,
                 headOut, dateShown>>
  /\ UNCHANGED <<tz, previewPost, chips, previewDate>>
  /\ UNCHANGED <<lookups, errorCalls, via>>

Next ==
  \/ \E r \in Reqs, slug \in Slugs : Navigate(r, slug)
  \/ \E r \in Reqs : asyncDataResolved(r)
  \/ \E r \in Reqs, reason \in Reasons : asyncDataRejected(r, reason)
  \/ \E r \in Reqs : RenderPage(r)
  \/ \E r \in Reqs : RenderError(r)

Spec == Init /\ [][Next]_vars

\* ------------------------------------------------------------------------
\* PostPreview.vue on its own: a preview card is created with a `post`
\* prop and rendered, which evaluates formatDate(post.createdAt) and the
\* computed `tags`.
\* ------------------------------------------------------------------------
InitTags ==
  /\ tz = 0
  /\ variant = "A"
  /\ content = [s \in {"about-brittle-unit-tests"} |-> BrittleDoc]
  /\ PageInit
  /\ previewPost \in {[BrittleDoc EXCEPT !.tags = t] : t \in TagInputs}
  /\ chips = Undefined
  /\ previewDate = Undefined

RenderPreview ==
  /\ ~IsDefined(chips)
  /\ chips' = Some(tags(previewPost.tags))
  /\ previewDate' = Some(formatDate(previewPost.createdAt, tz))
  /\ UNCHANGED <<tz, previewPost>>
  /\ UNCHANGED pageVars

NextTags == RenderPreview

SpecTags == InitTags /\ [][NextTags]_vars

\* The preview card rendered from documents with every raw createdAt of
\* DateInputs, in every time zone of TimeZones.
InitDate ==
  /\ tz \in TimeZones
  /\ variant = "A"
  /\ content = [s \in {"about-brittle-unit-tests"} |-> BrittleDoc]
  /\ PageInit
  /\ previewPost \in {[BrittleDoc EXCEPT !.createdAt = c] : c \in DateInputs}
  /\ chips = Undefined
  /\ previewDate = Undefined

NextDate == RenderPreview

SpecDate == InitDate /\ [][NextDate]_vars

\* A document with each of description, htmlMetadata, image and tags
\* present or absent, shown by the preview card and by the post page.
OptionalDocs ==
  { [d EXCEPT !.tags = t] :
      d \in {h \in HelloDocs : IsDefined(h.date)},
      t \in {Undefined, Some(<<"intro", ";", "demo">>)} }

InitOptional ==
  /\ tz = 0
  /\ variant \in Variants
  /\ \E d \in OptionalDocs :
       /\ content = [s \in {"hello"} |-> d]
       /\ previewPost = d
  /\ PageInit
  /\ chips = Undefined
  /\ previewDate = Undefined

NextOptional ==
  \/ RenderPreview
  \/ Next

SpecOptional == InitOptional /\ [][NextOptional]_vars

\* The list page and the post page together: the store holds two documents,
\* a preview card shows one of them, and the post page is entered by URL or
\* through the card's link.  The createdAt of the first document is a date
\* or a text that is not one.
ValidCreatedAt == Some(<<"2", "0", "2", "2", "-", "0", "1", "-", "0", "1">>)

ListDocs ==
  { [d EXCEPT !.createdAt = c] :
      d \in {h \in HelloDocs : /\ IsDefined(h.description)
                                /\ IsDefined(h.htmlMetadata)},
      c \in {ValidCreatedAt,
             Some(<<"n", "o", "t", " ", "a", " ", "d", "a", "t", "e">>)} }

InitList ==
  /\ tz = 0
  /\ variant \in Variants
  /\ \E d \in ListDocs :
       content = [s \in {"hello", "about-brittle-unit-tests"} |->
                    IF s = "hello" THEN d ELSE BrittleDoc]
  /\ previewPost \in {content[s] : s \in DOMAIN content}
  /\ PageInit
  /\ chips = Undefined
  /\ previewDate = Undefined

NextList ==
  \/ RenderPreview
  \/ \E r \in Reqs : FollowLink(r)
  \/ Next

SpecList == InitList /\ [][NextList]_vars

\* ------------------------------------------------------------------------
\* Properties
\* ------------------------------------------------------------------------
Done(r) == pc[r] \in {"returned", "rendered", "errorPage", "threw"}

Meta(r) == Val(headOut[r]).meta

HasEntry(r, h) == \E i \in 1..Len(Meta(r)) : Meta(r)[i].hid = h

EntriesOf(r, hs) == {i \in 1..Len(Meta(r)) : Meta(r)[i].hid \in hs}

DelimCount(s) == Cardinality({i \in 1..Len(s) : s[i] = ";"})

\* Position of the k-th delimiter of s; 0 before the first segment and
\* Len(s) + 1 after the last.
DelimPos(s, k) ==
  IF k = 0 THEN 0
  ELSE IF k > DelimCount(s) THEN Len(s) + 1
  ELSE CHOOSE i \in 1..Len(s) :
         s[i] = ";" /\ Cardinality({j \in 1..i : s[j] = ";"}) = k

\* C1: the tag parser returns the empty sequence whenever the raw tags
\* field is null, undefined or the empty string.
C1_EmptyInputGivesNoTags ==
  (IsDefined(chips) /\ previewPost.tags \in {Undefined, Some(EmptyString)})
    => Val(chips) = <<>>

\* C2: for every non-empty raw tags string the chips are exactly the
\* maximal ';'-free runs of the raw string, in left-to-right order and
\* unchanged: one more chip than there are delimiters, the k-th chip being
\* the text between the (k-1)-th and the k-th delimiter.
C2_SplitOnDelimiterInOrder ==
  (IsDefined(chips) /\ IsDefined(previewPost.tags)
     /\ Val(previewPost.tags) # EmptyString)
    => LET raw == Val(previewPost.tags)
           out == Val(chips)
       IN /\ Len(out) = DelimCount(raw) + 1
          /\ \A k \in 1..Len(out) :
               out[k] = SubSeq(raw, DelimPos(raw, k - 1) + 1,
                               DelimPos(raw, k) - 1)
          /\ raw = <<"a", ";", "b", ";", "c">>
               => out = << <<"a">>, <<"b">>, <<"c">> >>
          /\ raw = <<"intro", ";", "demo">>
               => out = << <<"intro">>, <<"demo">> >>

C2_Witness ==
  /\ IsDefined(chips)
  /\ previewPost.tags = Some(<<"a", ";", "b", ";", "c">>)
  /\ Val(chips) = << <<"a">>, <<"b">>, <<"c">> >>

\* C3: round trip: when the raw tag string neither starts nor ends with
\* ';', joining the chips with ';' gives back the raw string.
C3_JoinRoundTrip ==
  (IsDefined(chips) /\ IsDefined(previewPost.tags))
    => LET raw == Val(previewPost.tags)
       IN (Len(raw) = 0 \/ (raw[1] # ";" /\ raw[Len(raw)] # ";"))
            => join(Val(chips), ";") = raw

C3_Witness ==
  /\ IsDefined(chips)
  /\ previewPost.tags = Some(<<"algorithms", ";", " ", "systems-design">>)
  /\ Len(Val(chips)) = 2
  /\ join(Val(chips), ";") = Val(previewPost.tags)

\* C4: a lookup of a slug that is not in the store signals the error with
\* status code 404 and the fixed message, for every such slug.
C4_MissingSlugSignals404 ==
  \A r \in Reqs :
    (Done(r) /\ Val(params[r]) \notin DOMAIN content)
      => nuxtErr[r] =
           Some([statusCode |-> 404, message |-> "Página no encontrada"])

C4_Witness ==
  \E r \in Reqs :
    /\ pc[r] = "errorPage"
    /\ params[r] = Some("missing-slug")
    /\ rejection[r] = Some("not found")
    /\ IsDefined(nuxtErr[r])
    /\ Val(nuxtErr[r]).statusCode = 404

\* C5: no partial render: a request ends either with the page rendered
\* from the complete stored document, or with the error page; a page is
\* never rendered, and head() never evaluated, after a rejected lookup or
\* with a missing document.
C5_NoPartialRender ==
  \A r \in Reqs :
    /\ pc[r] # "threw"
    /\ pc[r] = "rendered"
         => /\ post[r] = Some(content[Val(params[r])])
            /\ ~IsDefined(nuxtErr[r])
            /\ ~IsDefined(rejection[r])
    /\ pc[r] = "errorPage"
         => /\ IsDefined(nuxtErr[r])
            /\ ~IsDefined(headOut[r])
    /\ IsDefined(headOut[r]) => (pc[r] = "rendered" /\ IsDefined(post[r]))
    /\ (Done(r) /\ ~IsDefined(post[r]))
         => (IsDefined(nuxtErr[r]) /\ ~IsDefined(headOut[r]))

C5_Witness ==
  \E r, q \in Reqs :
    /\ pc[r] = "errorPage"
    /\ IsDefined(rejection[r])
    /\ ~IsDefined(post[r])
    /\ pc[q] = "rendered"
    /\ IsDefined(headOut[q])

\* C6: a store-level failure of the lookup is reported as an error that
\* differs from the 404 not-found error.
C6_StoreFailureNotReportedAs404 ==
  \A r \in Reqs :
    (Done(r) /\ rejection[r] = Some("store failure"))
      => /\ IsDefined(nuxtErr[r])
         /\ Val(nuxtErr[r]).statusCode # 404
         /\ Val(nuxtErr[r]).message # "Página no encontrada"

\* C7: the description entries carry htmlMetadata when present, otherwise
\* description, otherwise the empty string.
C7_DescriptionFallback ==
  \A r \in Reqs :
    IsDefined(headOut[r])
      => LET p == Val(post[r])
             expected ==
               IF IsDefined(p.htmlMetadata) THEN p.htmlMetadata
               ELSE IF IsDefined(p.description) THEN p.description
               ELSE Some(EmptyString)
         IN \A i \in EntriesOf(r, {"description", "og:description",
                                   "twitter:description"}) :
              Meta(r)[i].content = expected

\* C8: without an image the block has neither og:image nor twitter:image;
\* with an image it has both.
C8_ImageEntriesIffImage ==
  \A r \in Reqs :
    IsDefined(headOut[r])
      => IF IsDefined(Val(post[r]).image)
         THEN HasEntry(r, "og:image") /\ HasEntry(r, "twitter:image")
         ELSE ~HasEntry(r, "og:image") /\ ~HasEntry(r, "twitter:image")

\* The stored image path without a leading "/".
StripLeadingSlash(path) ==
  IF Len(path) > 0 /\ path[1] = "/" THEN Tail(path) ELSE path

\* C9: for a document with an image, og:image and twitter:image are the
\* base URL joined with the image path into one well-formed URL (a single
\* "/" between host and path), also when the stored path begins with "/".
C9_ImageUrlWellFormed ==
  \A r \in Reqs :
    (IsDefined(headOut[r]) /\ IsDefined(Val(post[r]).image))
      => \A i \in EntriesOf(r, {"og:image", "twitter:image"}) :
           Meta(r)[i].content =
             Some(BaseUrl \o <<"/">>
                    \o StripLeadingSlash(Val(Val(post[r]).image)))

\* C10: the twitter:url entry is the base URL, then "/posts/", then the
\* slug of the document being rendered.
C10_TwitterUrlIsPostsSlug ==
  \A r \in Reqs :
    IsDefined(headOut[r])
      => /\ variant = "A"
              => Cardinality(EntriesOf(r, {"twitter:url"})) = 1
         /\ \A i \in EntriesOf(r, {"twitter:url"}) :
              Meta(r)[i].content =
                Some(<<"https:", "/", "/", "jorge-olive.net", "/", "posts",
                       "/", Val(post[r]).slug>>)

C10_Witness ==
  \E r \in Reqs :
    /\ IsDefined(headOut[r])
    /\ Val(post[r]).slug = "hello"
    /\ \E i \in EntriesOf(r, {"twitter:url"}) :
         Meta(r)[i].content =
           Some(<<"https:", "/", "/", "jorge-olive.net", "/", "posts", "/",
                  "hello">>)

\* C11: the date a page shows is the document's pre-formatted date when it
\* has one and formatDate(createdAt) otherwise, and it is never empty.
C11_DateTwoWayChoice ==
  \A r \in Reqs :
    IsDefined(dateShown[r])
      => LET p == Val(post[r])
         IN /\ Val(dateShown[r]) =
                 (IF IsDefined(p.date) THEN Val(p.date)
                  ELSE formatDate(p.createdAt, tz))
            /\ Val(dateShown[r]) # EmptyString

\* C12: formatDate renders an ISO calendar date as month name, day and
\* year of that same calendar date, whatever the time zone.
C12_SameCalendarDateInEveryZone ==
  (IsDefined(previewDate) /\ IsDefined(previewPost.createdAt)
     /\ Val(previewPost.createdAt) \in IsoDates)
    => LET raw == Val(previewPost.createdAt)
       IN /\ Val(previewDate) =
               <<MonthNames[Num(SubSeq(raw, 6, 7))], " ",
                 ToString(Num(SubSeq(raw, 9, 10))), ",", " ",
                 ToString(Num(SubSeq(raw, 1, 4)))>>
          /\ raw = <<"2", "0", "2", "3", "-", "0", "3", "-", "1", "8">>
               => Val(previewDate) = <<"March", " ", "18", ",", " ", "2023">>
          /\ raw = <<"2", "0", "2", "2", "-", "0", "1", "-", "0", "1">>
               => Val(previewDate) = <<"January", " ", "1", ",", " ", "2022">>

\* C13: for a raw value that is not a date, formatDate returns the string
\* "Invalid Date" and the view shows it as it is; nothing is thrown.
C13_InvalidDateSentinel ==
  (IsDefined(previewDate)
     /\ previewPost.createdAt \in {Undefined} \cup {Some(g) : g \in NotDates})
    => Val(previewDate) = <<"Invalid Date">>

C13_Witness ==
  /\ previewPost.createdAt =
       Some(<<"n", "o", "t", " ", "a", " ", "d", "a", "t", "e">>)
  /\ previewDate = Some(<<"Invalid Date">>)

\* C15: no resolution changes the store or a stored document, whether it
\* hits or misses; the preview's `post` prop is not changed either.
C15_StoreUnchanged ==
  [][content' = content /\ previewPost' = previewPost]_vars

C15_Witness ==
  \E r, q \in Reqs :
    /\ pc[r] = "rendered"
    /\ post[r] = Some(content[Val(params[r])])
    /\ pc[q] = "errorPage"
    /\ rejection[q] = Some("not found")
    /\ content \in Stores

C17_TitlePrefixOnPageTitleOnly ==
  \A r \in Reqs :
    IsDefined(headOut[r])
      => LET p == Val(post[r])
         IN /\ Val(headOut[r]).title = <<"jorge-olive.net - ">> \o p.title
            /\ \A h \in {"og:title", "twitter:title"} :
                 /\ Cardinality(EntriesOf(r, {h})) = 1
                 /\ \A i \in EntriesOf(r, {h}) :
                      Meta(r)[i].content = Some(p.title)

C17_Witness ==
  \E r \in Reqs :
    /\ IsDefined(headOut[r])
    /\ Val(headOut[r]).title = <<"jorge-olive.net - ", "Hello World">>
    /\ \E i \in EntriesOf(r, {"og:title"}) :
         Meta(r)[i].content = Some(<<"Hello World">>)

\* C18: every block has the fixed entry set (charset, viewport, description,
\* og:title, og:description, twitter:card, twitter:url, twitter:title,
\* twitter:description, favicon link), and an entry that depends on an
\* absent optional field has the empty string as its value.
C18_FixedEntrySet ==
  \A r \in Reqs :
    IsDefined(headOut[r])
      => /\ \E i \in 1..Len(Meta(r)) : Meta(r)[i].attr = "charset"
         /\ \E i \in 1..Len(Meta(r)) : Meta(r)[i].key = <<"viewport">>
         /\ \A h \in {"description", "og:title", "og:description",
                      "twitter:card", "twitter:url", "twitter:title",
                      "twitter:description"} : HasEntry(r, h)
         /\ \E k \in 1..Len(Val(headOut[r]).link) :
              Val(headOut[r]).link[k].rel = "icon"
         /\ \A i \in EntriesOf(r, {"description", "og:description",
                                   "twitter:description"}) :
              /\ IsDefined(Meta(r)[i].content)
              /\ (~IsDefined(Val(post[r]).htmlMetadata)
                    /\ ~IsDefined(Val(post[r]).description))
                   => Meta(r)[i].content = Some(EmptyString)

\* C19: with any of description, htmlMetadata, image and tags absent, the
\* tag list is computed and the page with its head() is rendered; nothing
\* throws.
C19_AbsentOptionalFieldsNeverThrow ==
  /\ IsDefined(chips)
       => /\ Val(chips) # TypeError
          /\ ~IsDefined(previewPost.tags) => Val(chips) = <<>>
  /\ \A r \in Reqs :
       (IsDefined(post[r]) /\ pc[r] \in {"rendered", "threw"})
         => /\ pc[r] = "rendered"
            /\ IsDefined(headOut[r])
            /\ Len(Meta(r)) > 0

C19_Witness ==
  /\ IsDefined(chips)
  /\ ~IsDefined(previewPost.tags)
  /\ \E r \in Reqs :
       /\ pc[r] = "rendered"
       /\ IsDefined(headOut[r])
       /\ ~IsDefined(Val(post[r]).description)
       /\ ~IsDefined(Val(post[r]).htmlMetadata)
       /\ ~IsDefined(Val(post[r]).image)
       /\ ~IsDefined(Val(post[r]).tags)

\* C20: the twitter:card entry is summary_large_image for every document.
C20_CardTypeConstant ==
  \A r \in Reqs :
    IsDefined(headOut[r])
      => /\ variant = "A"
              => Cardinality(EntriesOf(r, {"twitter:card"})) = 1
         /\ \A i \in EntriesOf(r, {"twitter:card"}) :
              Meta(r)[i].content = Some(<<"summary_large_image">>)

C20_Witness ==
  \E r, q \in Reqs :
    /\ IsDefined(headOut[r]) /\ IsDefined(headOut[q])
    /\ ~IsDefined(Val(post[r]).image)
    /\ IsDefined(Val(post[q]).image)
    /\ \E i \in EntriesOf(r, {"twitter:card"}), j \in EntriesOf(q, {"twitter:card"}) :
         /\ Meta(r)[i].content = Some(<<"summary_large_image">>)
         /\ Meta(q)[j].content = Some(<<"summary_large_image">>)

\* The state that belongs to request r.
ReqState(r) ==
  <<pc[r], params[r], post[r], nuxtErr[r], rejection[r], headOut[r],
    dateShown[r], lookups[r], errorCalls[r], via[r]>>

\* C21: interleaved resolutions do not interfere: a step of one request
\* leaves every other request's state as it was, and what a request holds
\* (resolved document, metadata block, date, error) is what its own slug and
\* its own lookup give against the store, as when it runs alone.
C21_NoInterference ==
  /\ [](\A r \in Reqs :
          /\ IsDefined(post[r])
               => /\ pc[r] \in {"returned", "rendered"}
                  /\ ~IsDefined(rejection[r])
                  /\ post[r] = Some(content[Val(params[r])])
          /\ pc[r] = "rendered"
               => /\ headOut[r] =
                       Some(head(variant, content[Val(params[r])],
                                 Val(params[r])))
                  /\ dateShown[r] =
                       Some(pageDate(variant, content[Val(params[r])], tz))
          /\ pc[r] # "rendered"
               => (~IsDefined(headOut[r]) /\ ~IsDefined(dateShown[r]))
          /\ IsDefined(nuxtErr[r]) <=> IsDefined(rejection[r])
          /\ rejection[r] = Some("not found")
               => Val(params[r]) \notin DOMAIN content)
  /\ [][\A r, q \in Reqs :
          (r # q /\ ReqState(r)' # ReqState(r))
            => ReqState(q)' = ReqState(q)]_vars

C21_Witness ==
  \E r, q \in Reqs :
    /\ r # q
    /\ pc[r] = "rendered"
    /\ pc[q] = "returned"
    /\ IsDefined(post[q])
    /\ params[r] # params[q]
    /\ post[r] # post[q]

\* C22: a request issues exactly one lookup, and none after its lookup has
\* failed.
C22_OneLookupNoRetry ==
  /\ [](\A r \in Reqs : lookups[r] = IF pc[r] = "idle" THEN 0 ELSE 1)
  /\ [][\A r \in Reqs :
          IsDefined(rejection[r]) => lookups'[r] = lookups[r]]_vars

C22_Witness ==
  \E r \in Reqs :
    /\ pc[r] = "errorPage"
    /\ IsDefined(rejection[r])
    /\ lookups[r] = 1

\* C23: head() and the template are evaluated for a request only in a step
\* taken after its lookup has completed successfully; once the lookup has
\* failed, no evaluation follows and the request can only go on to the
\* error page.
C23_TransformAfterLookup ==
  [][\A r \in Reqs :
       /\ ( \/ headOut'[r] # headOut[r]
            \/ dateShown'[r] # dateShown[r]
            \/ (pc'[r] # pc[r] /\ pc'[r] \in {"rendered", "threw"}) )
            => /\ pc[r] = "returned"
               /\ IsDefined(post[r])
               /\ ~IsDefined(rejection[r])
       /\ IsDefined(rejection[r])
            => /\ headOut'[r] = headOut[r]
               /\ dateShown'[r] = dateShown[r]
               /\ post'[r] = post[r]
               /\ pc'[r] \in {pc[r], "errorPage"}]_vars

C23_Witness ==
  \E r, q \in Reqs :
    /\ pc[r] = "rendered"
    /\ IsDefined(headOut[r])
    /\ IsDefined(dateShown[r])
    /\ lookups[r] = 1
    /\ pc[q] = "errorPage"
    /\ rejection[q] = Some("store failure")
    /\ ~IsDefined(headOut[q])

\* C24: a non-empty raw tag string with k delimiters gives k + 1 chips; when
\* it ends in ';' the last chip is the empty string; "testing;" gives
\* ["testing", ""].
C24_TrailingDelimiterGivesEmptyLast ==
  (IsDefined(chips) /\ IsDefined(previewPost.tags)
     /\ Val(previewPost.tags) # EmptyString)
    => LET raw == Val(previewPost.tags)
           out == Val(chips)
       IN /\ Len(out) = DelimCount(raw) + 1
          /\ raw[Len(raw)] = ";" => out[Len(out)] = EmptyString
          /\ raw = <<"testing", ";">> => out = << <<"testing">>, <<>> >>

C24_Witness ==
  /\ previewPost.tags = Some(<<"testing", ";">>)
  /\ chips = Some(<< <<"testing">>, <<>> >>)

\* Request r has rendered a document whose createdAt is not a date.
RenderedUnparseable(r) ==
  /\ pc[r] \in {"rendered", "threw"}
  /\ IsDefined(post[r])
  /\ newDate(Val(post[r]).createdAt) = InvalidDate

\* The metadata block of the document of request r, had its createdAt been
\* a valid date.
ValidTwinHead(r) ==
  head(variant, [Val(post[r]) EXCEPT !.createdAt = ValidCreatedAt],
       Val(params[r]))

C26_HeadNeverSeesUndefinedPost ==
  \A r \in Reqs :
    /\ pc[r] # "threw"
    /\ IsDefined(headOut[r])
         => /\ IsDefined(post[r])
            /\ headOut[r] = Some(head(variant, Val(post[r]), Val(params[r])))
    /\ (IsDefined(rejection[r]) /\ Done(r))
         => /\ ~IsDefined(post[r])
            /\ errorCalls[r] = 1
            /\ nuxtErr[r] = Some(NotFoundError)
            /\ pc[r] \in {"returned", "errorPage"}

C26_Witness ==
  \E r \in Reqs :
    /\ pc[r] = "returned"
    /\ IsDefined(rejection[r])
    /\ ~IsDefined(post[r])
    /\ errorCalls[r] = 1
    /\ ~IsDefined(headOut[r])

\* C27: error() is called at most once per request, and exactly when the
\* lookup rejected; a request whose lookup succeeded has made no error()
\* call and holds the fetched document as post.
C27_ErrorIffRejectedAtMostOnce ==
  \A r \in Reqs :
    /\ errorCalls[r] \in {0, 1}
    /\ errorCalls[r] = 1 <=> IsDefined(rejection[r])
    /\ IsDefined(nuxtErr[r]) <=> IsDefined(rejection[r])
    /\ IsDefined(nuxtErr[r]) => Val(nuxtErr[r]).statusCode = 404
    /\ (Done(r) /\ ~IsDefined(rejection[r]))
         => /\ errorCalls[r] = 0
            /\ post[r] = Some(content[Val(params[r])])

C27_Witness ==
  \E r, q \in Reqs :
    /\ Done(r) /\ Done(q)
    /\ rejection[r] = Some("not found")
    /\ errorCalls[r] = 1
    /\ ~IsDefined(rejection[q])
    /\ errorCalls[q] = 0
    /\ IsDefined(post[q])

\* C28: the slug of the route, which twitter:url ends with, is the slug of
\* the fetched document; a page entered through a preview card's link that
\* holds a document holds the card's document.
C28_RouteSlugIsDocumentSlug ==
  \A r \in Reqs :
    /\ IsDefined(post[r]) => Val(post[r]).slug = Val(params[r])
    /\ (via[r] = "link" /\ pc[r] # "idle")
         => params[r] = Some(previewPost.slug)
    /\ (via[r] = "link" /\ IsDefined(post[r]))
         => Val(post[r]) = previewPost
    /\ IsDefined(headOut[r])
         => /\ variant = "A" => HasEntry(r, "twitter:url")
            /\ \A i \in EntriesOf(r, {"twitter:url"}) :
                 LET url == Val(Meta(r)[i].content)
                 IN url[Len(url)] = Val(post[r]).slug

C28_Witness ==
  \E r \in Reqs :
    /\ via[r] = "link"
    /\ pc[r] = "rendered"
    /\ variant = "A"
    /\ post[r] = Some(previewPost)
    /\ \E i \in EntriesOf(r, {"twitter:url"}) :
         LET url == Val(Meta(r)[i].content)
         IN url[Len(url)] = previewPost.slug

\* C29: the date shown by the preview card of a document is the date shown
\* by the post page of that document.
C29_PreviewDateIsPageDate ==
  \A r \in Reqs :
    (pc[r] = "rendered" /\ IsDefined(previewDate)
       /\ post[r] = Some(previewPost))
      => dateShown[r] = previewDate

\* C30: the keys of the tag chips of a card, which are the chips' texts, are
\* pairwise distinct.
C30_ChipKeysDistinct ==
  IsDefined(chips)
    => \A i, j \in 1..Len(Val(chips)) :
         i # j => Val(chips)[i] # Val(chips)[j]

====
